---- MODULE Spec2Model ----
(***************************************************************************)
(* Model of the SWE-bench evaluation scripts of sage:                      *)
(*   swebench_eval/run_agent.py       SageEvaluator  (prog = "run_agent")  *)
(*   swebench_eval/evaluate_local.py  LocalEvaluator (prog = "evaluate")   *)
(* A behaviour is one run of one of the two scripts over a batch.  Text    *)
(* (patches, git output) is a sequence of one-character strings.           *)
(***************************************************************************)
EXTENDS Integers, Sequences, FiniteSets, TLC

VARIABLES
    prog,         \* which script this run executes
    pc,           \* position of the script
    n,            \* number of instances / predictions of the batch
    i,            \* 1-based index of the batch loop (enumerate(..., 1))
    log,          \* external steps performed for the current instance, in order
    \* ---- run_agent.py : SageEvaluator
    max_retries,  \* self.max_retries
    result,       \* the result dict of evaluate_instance
    attempt,      \* loop variable of "for attempt in range(max_retries + 1)"
    success,      \* value returned by the last run_agent call
    patch,        \* value returned by the last extract_patch call
    wt,           \* the instance's working tree
    invocations,  \* run_agent calls made for the current instance
    attempts,     \* per finished attempt: agent outcome, return value, patch
    predictions,  \* the predictions list of run_evaluation
    saved,        \* the predictions file: {} when absent, {list} when written
    \* ---- evaluate_local.py : LocalEvaluator
    model_patch,  \* prediction["model_patch"]
    test_patch,   \* instance_data["test_patch"]
    verdict,      \* the result dict of evaluate_prediction
    etree,        \* the working tree evaluate_prediction patches and tests
    test_result,  \* the dict returned by run_tests
    test_cmd,     \* the command list built by _get_django_test_cmd
    errWrites,    \* assignments made to verdict["error"]
    results,      \* the results list of evaluate_all
    outfile,      \* the results file written by main: {} or {list}
    traj,         \* analyze_trajectories: content of the trajectory file at hand
    report,       \* analyze_trajectories: what analyze_trajectory gave for it
    files,        \* the sorted trajectory files: instance directory and content
    all_results,  \* main: instance directory -> result
    error_summary,         \* main: error type -> count
    unreasonable_summary,  \* main: issue -> count
    total_tool_usage,      \* main: tool name -> count, computed after the loop
    reports       \* history: what each call of analyze_trajectory returned

runVars == <<max_retries, result, attempt, success, patch, wt, invocations,
             attempts, predictions, saved>>
evalVars == <<model_patch, test_patch, verdict, etree, test_result, test_cmd, errWrites,
              results, outfile>>
analyzeVars == <<traj, report, files, all_results, error_summary, unreasonable_summary,
                 total_tool_usage, reports>>
vars == <<prog, pc, n, i, log, runVars, evalVars, analyzeVars>>

----------------------------------------------------------------------------
(* Bounds of the model *)
MaxBatch == 2
MaxRetriesBound == 1
MaxPatchLen == 2
MaxSteps == 2
MaxFiles == 3
MaxDirs == 2

----------------------------------------------------------------------------
(* Text *)
Whitespace == {" ", "\n"}
Chars == {" ", "d"}

RECURSIVE LStrip(_)
LStrip(s) == IF s # <<>> /\ Head(s) \in Whitespace THEN LStrip(Tail(s)) ELSE s

RECURSIVE RStrip(_)
RStrip(s) ==
    IF s # <<>> /\ s[Len(s)] \in Whitespace
    THEN RStrip(SubSeq(s, 1, Len(s) - 1))
    ELSE s

\* str.strip()
Strip(s) == RStrip(LStrip(s))

\* Python's None, and the truth value of an Optional[str]
None == <<"None">>
Truthy_Inverted(s) == ~(s # None /\ s # <<>>)
Truthy(s) == s # None /\ s # <<>>

\* the patch texts a predictions file or an instance record can hold
RECURSIVE TextsUpTo(_)
TextsUpTo(k) ==
    IF k = 0 THEN {<<>>}
    ELSE LET shorter == TextsUpTo(k - 1)
         IN shorter \cup {Append(t, c) : t \in shorter, c \in Chars}
PatchTexts == TextsUpTo(MaxPatchLen)

----------------------------------------------------------------------------
(* run_agent.py *)

\* the changes an agent can leave in tracked files, as `git diff` prints them
DiffBodies == {<<"a">>, <<"b">>}
NoTree == [exists |-> FALSE, unstaged |-> <<>>, staged |-> FALSE, untracked |-> {}]

NewResult(id) ==
    [instance_id |-> id, model_patch |-> <<>>, model_name_or_path |-> "sage-agent"]
NoResult == NewResult(0)

\* range(self.max_retries + 1)
AttemptRange_OffByOne == 0 .. (max_retries + 1)
AttemptRange_Short == 0 .. max_retries - 1
AttemptRange == 0 .. (max_retries + 1) - 1

\* the texts the prompt is built from, each as one piece
PromptPrefix == <<"SWEBENCH_PROMPT_PREFIX">>
RetryPrompt == <<"SWEBENCH_RETRY_PROMPT">>
ProblemStatement == <<"problem_statement">>
\* full_prompt = SWEBENCH_PROMPT_PREFIX + problem_statement (+ SWEBENCH_RETRY_PROMPT)
FullPrompt_NoRetryText(problem_statement, is_retry) ==
    PromptPrefix \o problem_statement
FullPrompt(problem_statement, is_retry) ==
    PromptPrefix \o problem_statement \o (IF is_retry THEN RetryPrompt ELSE <<>>)

\* run_agent's return value for each way the subprocess call can end
RunAgentReturn(outcome) ==
    CASE outcome = "exit0" -> TRUE
      [] outcome = "nonzero" -> FALSE
      [] outcome = "timeout" -> FALSE
      [] outcome = "error" -> FALSE

\* stdout of `git diff`: unstaged changes of tracked files only
GitDiffStdout_WithUntracked(tree) ==
    IF tree.unstaged = <<>> /\ "new_file" \notin tree.untracked THEN <<>>
    ELSE tree.unstaged \o (IF "new_file" \in tree.untracked THEN <<"a">> ELSE <<>>)
                      \o <<"\n">>
GitDiffStdout(tree) ==
    IF tree.unstaged = <<>> THEN <<>> ELSE tree.unstaged \o <<"\n">>

\* extract_patch
ExtractPatchReturn(tree, ok) ==
    IF ok
    THEN LET p == Strip(GitDiffStdout(tree)) IN IF p # <<>> THEN p ELSE None
    ELSE None

\* git checkout . : restores tracked files from the index
GitCheckoutDot(tree) == [tree EXCEPT !.unstaged = <<>>]

\* git apply --check of the instance's test patch against the tree, for a test
\* patch that edits the tracked file the agent edits and adds the file
\* "new_file": it needs the tracked file as committed and the new path free
TestPatchChecks(tree) ==
    /\ tree.exists
    /\ tree.unstaged = <<>> /\ ~tree.staged
    /\ "new_file" \notin tree.untracked

\* clone, fetch and checkout run with check=True: a failing command raises
SetupRaises_Unchecked(ok) == FALSE
SetupRaises(ok) == ~ok

\* is_retry = attempt > 0; "if is_retry:" guards the reset
NeedsReset_Never(a) == FALSE
NeedsReset(a) == a > 0

\* predictions.append(prediction) / results.append(result)
ListAppend_Overwrites(list, rec) == <<rec>>
ListAppend(list, rec) == Append(list, rec)

\* _save_predictions: the whole list is dumped into the file
NoFile == {}
SavePredictions_Skipped(file, list) == file
SavePredictions(file, list) == {list}

EvaluateInstanceBegin ==
    /\ prog = "run_agent" /\ pc = "next" /\ i <= n
    /\ result' = NewResult(i)
    /\ attempt' = 0 /\ success' = FALSE /\ patch' = None
    /\ invocations' = 0 /\ attempts' = <<>> /\ log' = <<>>
    /\ wt' = NoTree
    /\ pc' = "setup"
    /\ UNCHANGED <<prog, n, i, max_retries, predictions, saved, evalVars, analyzeVars>>

\* setup_instance: rmtree, clone, fetch, checkout, PROBLEM_STATEMENT.md, config
SetupInstance ==
    /\ prog = "run_agent" /\ pc = "setup"
    /\ \E ok \in BOOLEAN, config \in BOOLEAN :
         /\ IF ok
            THEN /\ wt' = [exists |-> TRUE, unstaged |-> <<>>, staged |-> FALSE,
                           untracked |-> {"PROBLEM_STATEMENT.md"} \cup
                                         (IF config THEN {"sage_config.json"} ELSE {})]
                 /\ log' = Append(log, "setup")
            ELSE /\ wt' = NoTree
                 /\ log' = Append(log, "setup_failed")
         /\ pc' = IF SetupRaises(ok) \/ 0 \notin AttemptRange THEN "return"
                  ELSE IF NeedsReset(0) THEN "reset" ELSE "agent"
    /\ UNCHANGED <<prog, n, i, max_retries, result, attempt, success, patch,
                   invocations, attempts, predictions, saved, evalVars, analyzeVars>>

\* "git checkout ." before a retry; the exit status is not looked at
ResetWorkingTree ==
    /\ prog = "run_agent" /\ pc = "reset"
    /\ \E outcome \in {"ok", "failed", "raised"} :
         /\ wt' = IF outcome = "ok" THEN GitCheckoutDot(wt) ELSE wt
         /\ log' = Append(log, IF outcome = "raised" THEN "reset_raised" ELSE "reset")
         /\ pc' = IF outcome = "raised" THEN "return" ELSE "agent"
    /\ UNCHANGED <<prog, n, i, max_retries, result, attempt, success, patch,
                   invocations, attempts, predictions, saved, evalVars, analyzeVars>>

\* "if trajectory_file.exists():" after the subprocess returned; the two
\* exception paths leave run_agent before the test and print neither line
TrajectoryIndication(outcome, tree) ==
    IF outcome \in {"timeout", "error"} THEN "unreported"
    ELSE IF "trajectory" \in tree.untracked THEN "saved" ELSE "missing"

\* run_agent: one subprocess call of the agent with timeout=self.timeout;
\* created records whether this call of the agent wrote the trajectory file
RunAgent ==
    /\ prog = "run_agent" /\ pc = "agent"
    /\ \E outcome \in {"exit0", "nonzero", "timeout", "error"} :
         \E body \in DiffBodies \cup {<<>>}, stage \in BOOLEAN,
            new \in SUBSET {"new_file", "trajectory"} :
           /\ outcome = "error" => body = wt.unstaged /\ ~stage /\ new = {}
           /\ wt' = [wt EXCEPT !.unstaged = body,
                               !.staged = wt.staged \/ stage,
                               !.untracked = wt.untracked \cup new]
           /\ success' = RunAgentReturn(outcome)
           /\ attempts' = Append(attempts,
                  [index |-> attempt, outcome |-> outcome,
                   returned |-> RunAgentReturn(outcome), patch |-> None,
                   prompt |-> FullPrompt(ProblemStatement, NeedsReset(attempt)),
                   created |-> "trajectory" \in new,
                   trajectory |-> TrajectoryIndication(outcome, wt')])
    /\ invocations' = invocations + 1
    /\ log' = Append(log, "invoke")
    /\ pc' = "extract"
    /\ UNCHANGED <<prog, n, i, max_retries, result, attempt, patch,
                   predictions, saved, evalVars, analyzeVars>>

\* "if patch:" decides the break; success, run_agent's return value, is not read
LoopBreaks_OnExitStatus(agent_ok, p) == agent_ok
LoopBreaks(agent_ok, p) == Truthy(p)

\* extract_patch and the rest of the loop body: break, or next attempt
ExtractPatch ==
    /\ prog = "run_agent" /\ pc = "extract"
    /\ \E ok \in BOOLEAN :
         LET p == ExtractPatchReturn(wt, ok) IN
         /\ patch' = p
         /\ attempts' = [attempts EXCEPT ![Len(attempts)].patch = p]
         /\ log' = Append(log, "extract")
         /\ IF LoopBreaks(success, p)
            THEN /\ result' = [result EXCEPT !.model_patch = p]
                 /\ attempt' = attempt
                 /\ pc' = "return"
            ELSE /\ result' = result
                 /\ IF attempt + 1 \in AttemptRange
                    THEN /\ attempt' = attempt + 1
                         /\ pc' = IF NeedsReset(attempt + 1) THEN "reset" ELSE "agent"
                    ELSE attempt' = attempt /\ pc' = "return"
    /\ UNCHANGED <<prog, n, i, max_retries, success, wt, invocations,
                   predictions, saved, evalVars, analyzeVars>>

\* evaluate_instance returns; run_evaluation appends and saves
AppendPrediction ==
    /\ prog = "run_agent" /\ pc = "return"
    /\ predictions' = ListAppend(predictions, result)
    /\ saved' = SavePredictions(saved, predictions')
    /\ i' = i + 1
    /\ pc' = "next"
    /\ UNCHANGED <<prog, n, log, max_retries, result, attempt, success, patch, wt,
                   invocations, attempts, evalVars, analyzeVars>>

RunSummary ==
    /\ prog = "run_agent" /\ pc = "next" /\ i > n
    /\ pc' = "done"
    /\ UNCHANGED <<prog, n, i, log, runVars, evalVars, analyzeVars>>

----------------------------------------------------------------------------
(* evaluate_local.py *)

NewVerdict(id) ==
    [instance_id |-> id, resolved |-> FALSE, patch_applied |-> FALSE,
     test_output |-> "", error |-> ""]
NoVerdict == NewVerdict(0)
NoTestResult == [passed |-> FALSE, output |-> "", error |-> ""]
NoEvalTree == [exists |-> FALSE, files |-> {}, applied |-> {}]

\* "not patch.strip()" of apply_patch and apply_test_patch
IsBlank_NoStrip(p) == p = <<>>
IsBlank(p) == Strip(p) = <<>>

\* apply_patch goes on to the real apply only when the dry run exits with 0
CheckPassed_Ignored(rc) == TRUE
CheckPassed(rc) == ~(rc # 0)

\* run_tests: the dict it returns for each way the test process can end
RunTestsReturn_TimeoutPasses(outcome) ==
    CASE outcome = "exit0" -> [passed |-> TRUE, output |-> "out", error |-> ""]
      [] outcome = "nonzero" -> [passed |-> FALSE, output |-> "out", error |-> ""]
      [] outcome = "timeout" -> [passed |-> TRUE, output |-> "", error |-> "Test timeout"]
      [] outcome = "error" -> [passed |-> FALSE, output |-> "", error |-> "OSError"]
RunTestsReturn_TimeoutFolded(outcome) ==
    CASE outcome = "exit0" -> [passed |-> TRUE, output |-> "out", error |-> ""]
      [] outcome = "nonzero" -> [passed |-> FALSE, output |-> "out", error |-> ""]
      [] outcome = "timeout" -> [passed |-> FALSE, output |-> "", error |-> ""]
      [] outcome = "error" -> [passed |-> FALSE, output |-> "", error |-> "OSError"]
RunTestsReturn(outcome) ==
    CASE outcome = "exit0" -> [passed |-> TRUE, output |-> "out", error |-> ""]
      [] outcome = "nonzero" -> [passed |-> FALSE, output |-> "out", error |-> ""]
      [] outcome = "timeout" -> [passed |-> FALSE, output |-> "", error |-> "Test timeout"]
      [] outcome = "error" -> [passed |-> FALSE, output |-> "", error |-> "OSError"]

\* evaluate_prediction's assignments from the dict run_tests returned
VerdictAfterTests_DropsError(v, r) ==
    [v EXCEPT !.resolved = r.passed, !.test_output = r.output]
VerdictAfterTests(v, r) ==
    [v EXCEPT !.resolved = r.passed,
              !.test_output = r.output,
              !.error = IF r.error # "" THEN r.error ELSE @]

\* result["error"] = msg; return result
FailWith_FallsThrough(msg) ==
    /\ verdict' = [verdict EXCEPT !.error = msg]
    /\ errWrites' = errWrites + 1
    /\ pc' = CASE pc = "e_fetch" -> "e_setup"
               [] pc = "e_setup" -> "e_patch"
               [] pc = "e_patch" -> "e_check"
               [] pc = "e_check" -> "e_apply"
               [] pc = "e_apply" -> "e_testpatch"
               [] pc = "e_testpatch" -> "e_tests"
               [] OTHER -> "e_return"
FailWith_Propagates(msg) ==
    /\ pc' = "e_crashed"
    /\ UNCHANGED <<verdict, errWrites>>
FailWith(msg) ==
    /\ verdict' = [verdict EXCEPT !.error = msg]
    /\ errWrites' = errWrites + 1
    /\ pc' = "e_return"

EvaluatePredictionBegin ==
    /\ prog = "evaluate" /\ pc = "e_next" /\ i <= n
    /\ \E p \in PatchTexts : model_patch' = p
    /\ test_patch' = <<>>
    /\ verdict' = NewVerdict(i)
    /\ etree' = NoEvalTree /\ test_result' = NoTestResult /\ test_cmd' = test_cmd
    /\ errWrites' = 0 /\ log' = <<>>
    /\ pc' = "e_fetch"
    /\ UNCHANGED <<prog, n, i, runVars, analyzeVars, results, outfile>>

\* fetch_instance_data: the instance record, or None
FetchInstanceData ==
    /\ prog = "evaluate" /\ pc = "e_fetch"
    /\ \/ /\ \E t \in PatchTexts : test_patch' = t
          /\ log' = Append(log, "fetch")
          /\ pc' = "e_setup"
          /\ UNCHANGED <<verdict, errWrites>>
       \/ /\ FailWith("Could not fetch instance data")
          /\ log' = Append(log, "fetch_failed")
          /\ UNCHANGED test_patch
    /\ UNCHANGED <<prog, n, i, runVars, analyzeVars, model_patch, etree, test_result, test_cmd,
                   results, outfile>>

\* setup_instance: rmtree, clone, fetch, checkout (check=True)
SetupInstanceEval ==
    /\ prog = "evaluate" /\ pc = "e_setup"
    /\ \/ /\ etree' = [exists |-> TRUE, files |-> {}, applied |-> {}]
          /\ log' = Append(log, "setup")
          /\ pc' = "e_patch"
          /\ UNCHANGED <<verdict, errWrites>>
       \/ /\ FailWith("CalledProcessError")
          /\ log' = Append(log, "setup_failed")
          /\ UNCHANGED etree
    /\ UNCHANGED <<prog, n, i, runVars, analyzeVars, model_patch, test_patch, test_result, test_cmd,
                   results, outfile>>

\* apply_patch, up to the dry run: blank patch, or model.patch is written
ApplyPatchWrite ==
    /\ prog = "evaluate" /\ pc = "e_patch"
    /\ IF IsBlank(model_patch)
       THEN /\ FailWith("Failed to apply model patch")
            /\ UNCHANGED <<etree, log>>
       ELSE \/ /\ etree' = [etree EXCEPT !.files = @ \cup {"model.patch"}]
               /\ log' = Append(log, "write_model_patch")
               /\ pc' = "e_check"
               /\ UNCHANGED <<verdict, errWrites>>
            \/ /\ FailWith("OSError")
               /\ log' = Append(log, "write_model_patch_raised")
               /\ UNCHANGED etree
    /\ UNCHANGED <<prog, n, i, runVars, analyzeVars, model_patch, test_patch, test_result, test_cmd,
                   results, outfile>>

\* git apply --check model.patch
ApplyPatchCheck ==
    /\ prog = "evaluate" /\ pc = "e_check"
    /\ \/ \E rc \in {0, 1} :
            IF CheckPassed(rc)
            THEN /\ log' = Append(log, IF rc = 0 THEN "check_ok" ELSE "check_failed")
                 /\ pc' = "e_apply"
                 /\ UNCHANGED <<verdict, errWrites>>
            ELSE /\ log' = Append(log, "check_failed")
                 /\ FailWith("Failed to apply model patch")
       \/ /\ log' = Append(log, "check_raised")
          /\ FailWith("Failed to apply model patch")
    /\ UNCHANGED <<prog, n, i, runVars, analyzeVars, model_patch, test_patch, etree,
                   test_result, test_cmd, results, outfile>>

\* git apply model.patch (check=True), then result["patch_applied"] = True
ApplyPatchApply ==
    /\ prog = "evaluate" /\ pc = "e_apply"
    /\ \/ /\ etree' = [etree EXCEPT !.applied = @ \cup {"model"}]
          /\ log' = Append(log, "apply_ok")
          /\ verdict' = [verdict EXCEPT !.patch_applied = TRUE]
          /\ pc' = "e_testpatch"
          /\ UNCHANGED errWrites
       \/ /\ log' = Append(log, "apply_failed")
          /\ FailWith("Failed to apply model patch")
          /\ UNCHANGED etree
    /\ UNCHANGED <<prog, n, i, runVars, analyzeVars, model_patch, test_patch, test_result, test_cmd,
                   results, outfile>>

\* apply_test_patch: blank patch, or test.patch is written and git apply run
ApplyTestPatch ==
    /\ prog = "evaluate" /\ pc = "e_testpatch"
    /\ IF IsBlank(test_patch)
       THEN /\ pc' = "e_tests"
            /\ UNCHANGED <<etree, log, verdict, errWrites>>
       ELSE \/ /\ etree' = [etree EXCEPT !.files = @ \cup {"test.patch"},
                                         !.applied = @ \cup {"test"}]
               /\ log' = Append(log, "test_apply_ok")
               /\ pc' = "e_tests"
               /\ UNCHANGED <<verdict, errWrites>>
            \/ /\ etree' = [etree EXCEPT !.files = @ \cup {"test.patch"}]
               /\ log' = Append(log, "test_apply_failed")
               /\ FailWith("Failed to apply test patch")
            \/ /\ log' = Append(log, "write_test_patch_raised")
               /\ FailWith("OSError")
               /\ UNCHANGED etree
    /\ UNCHANGED <<prog, n, i, runVars, analyzeVars, model_patch, test_patch, test_result, test_cmd,
                   results, outfile>>

\* run_tests (timeout=300) and the assignments of evaluate_prediction after it
RunTests ==
    /\ prog = "evaluate" /\ pc = "e_tests"
    /\ \E outcome \in {"exit0", "nonzero", "timeout", "error"} :
         LET r == RunTestsReturn(outcome) IN
         /\ test_result' = r /\ test_cmd' = test_cmd
         /\ log' = Append(log, "tests_" \o outcome)
         /\ verdict' = VerdictAfterTests(verdict, r)
         /\ errWrites' = IF r.error # "" THEN errWrites + 1 ELSE errWrites
    /\ pc' = "e_return"
    /\ UNCHANGED <<prog, n, i, runVars, analyzeVars, model_patch, test_patch, etree,
                   results, outfile>>

\* evaluate_prediction returns; evaluate_all appends
AppendVerdict ==
    /\ prog = "evaluate" /\ pc = "e_return"
    /\ results' = ListAppend(results, verdict)
    /\ i' = i + 1
    /\ pc' = "e_next"
    /\ UNCHANGED <<prog, n, log, runVars, analyzeVars, model_patch, test_patch, verdict, etree,
                   test_result, test_cmd, errWrites, outfile>>

\* evaluate_all prints the summary and returns; main writes the results file
SaveResults ==
    /\ prog = "evaluate" /\ pc = "e_next" /\ i > n
    /\ outfile' = {results}
    /\ pc' = "e_done"
    /\ UNCHANGED <<prog, n, i, log, runVars, analyzeVars, model_patch, test_patch, verdict,
                   etree, test_result, test_cmd, errWrites, results>>

----------------------------------------------------------------------------
(* analyze_trajectories.py: analyze_trajectory and the loop of main *)

\* JSON values as json.load gives them, tagged by their Python type.
JNull == [t |-> "null"]
JNum(k) == [t |-> "num", k |-> k]
JStr(s) == [t |-> "str", s |-> s]
JList(l) == [t |-> "list", l |-> l]
JObj(f) == [t |-> "obj", f |-> f]
\* a file whose content json.load rejects
JInvalid == [t |-> "invalid"]
\* marks a key that the object does not have
Absent == [t |-> "absent"]
EmptyObj == [key \in {} |-> JNull]
ObjOf(pairs) ==
    LET P == {p \in pairs : p[2].t # "absent"}
    IN  JObj([key \in {p[1] : p \in P} |-> (CHOOSE p \in P : p[1] = key)[2]])

\* dict.get(key, default)
Get(f, key, default) == IF key \in DOMAIN f THEN f[key] ELSE default
\* Python truth value of a JSON value
JTruthy(v) ==
    CASE v.t = "null" -> FALSE
      [] v.t = "num" -> v.k # 0
      [] v.t = "str" -> v.s # <<>>
      [] v.t = "list" -> v.l # <<>>
      [] v.t = "obj" -> DOMAIN v.f # {}
\* x or default
OrDefault(v, default) == IF JTruthy(v) THEN v ELSE default
\* str(x), for the values the trajectories here hold in string positions
PyStr(v) == IF v.t = "str" THEN v.s ELSE <<"N", "o", "n", "e">>
\* sub in s
Contains(s, sub) ==
    \E k \in 0 .. Len(s) - Len(sub) : SubSeq(s, k + 1, k + Len(sub)) = sub
\* s[:k]
Prefix(s, k) == SubSeq(s, 1, IF Len(s) < k THEN Len(s) ELSE k)

ErrorLimit == 200
PathLimit == 50
TaskLimit == 100
BinaryFile == <<"B", "i", "n", "a", "r", "y", " ", "f", "i", "l", "e">>
NullWord == <<"n", "u", "l", "l">>
TmpDir == <<"/", "t", "m", "p">>
CatIdiom == <<"c", "a", "t", " ">>
PySuffix == <<".", "p", "y">>
EchoIdiom == <<"e", "c", "h", "o", " ">>
Redirect == <<">">>
WriteName == JStr(<<"Write">>)
BashName == JStr(<<"bash">>)
UnknownName == JStr(<<"unknown">>)
NoStepNumber == JStr(<<"?">>)

Raised(exc) == [kind |-> "raised", exc |-> exc]
ParseError(msg) == [kind |-> "parse_error", parse_error |-> msg]
NoReport == [kind |-> "none"]
NoTraj == [t |-> "none"]
\* errors = [], unreasonable = [], tool_usage = defaultdict(int): made anew in
\* every call, whatever the call before left
FreshAcc_Carried(prior) ==
    IF prior.kind = "report"
    THEN [raised |-> "", errors |-> prior.errors, unreasonable |-> prior.unreasonable,
          tool_usage |-> prior.tool_usage]
    ELSE [raised |-> "", errors |-> <<>>, unreasonable |-> <<>>,
          tool_usage |-> [name \in {} |-> 0]]
FreshAcc(prior) ==
    [raised |-> "", errors |-> <<>>, unreasonable |-> <<>>,
     tool_usage |-> [name \in {} |-> 0]]
\* tool_usage[tool_name] += 1 on a defaultdict(int)
Bump_Resets(usage, name) ==
    [key \in DOMAIN usage \cup {name} |-> IF key = name THEN 1 ELSE usage[key]]
Bump(usage, name) ==
    [key \in DOMAIN usage \cup {name} |->
        IF key = name THEN Get(usage, name, 0) + 1 ELSE usage[key]]
Finding(step_num, issue, severity) ==
    [step |-> step_num, issue |-> issue, severity |-> severity]

WriteFindings(step_num, args) ==
    LET file_path == PyStr(Get(args.f, "file_path", JStr(<<>>)))
    IN  IF Contains(file_path, TmpDir)
        THEN <<Finding(step_num, <<"Write to /tmp", ":", " ">> \o Prefix(file_path, PathLimit),
                       "high")>>
        ELSE <<>>
\* "cat " in cmd and ".py" in cmd
PrintsSource_Never(cmd) == FALSE
PrintsSource(cmd) == Contains(cmd, CatIdiom) /\ Contains(cmd, PySuffix)
\* "echo " in cmd and ">" in cmd
RedirectsEcho(cmd) == Contains(cmd, EchoIdiom) /\ Contains(cmd, Redirect)
CatFinding(step_num) ==
    Finding(step_num, <<"Using 'cat' instead of Read tool">>, "low")
EchoFinding(step_num) ==
    Finding(step_num, <<"Using echo redirect instead of Write tool">>, "medium")
BashFindings_Elif(step_num, args) ==
    LET cmd == PyStr(Get(args.f, "command", JStr(<<>>)))
    IN  IF PrintsSource(cmd) THEN <<CatFinding(step_num)>>
        ELSE IF RedirectsEcho(cmd) THEN <<EchoFinding(step_num)>>
        ELSE <<>>
BashFindings(step_num, args) ==
    LET cmd == PyStr(Get(args.f, "command", JStr(<<>>)))
    IN  (IF PrintsSource(cmd) THEN <<CatFinding(step_num)>> ELSE <<>>)
        \o
        (IF RedirectsEcho(cmd) THEN <<EchoFinding(step_num)>> ELSE <<>>)
\* the body of "for tc in tool_calls"
OneToolCall(acc, step_num, tc) ==
    IF acc.raised # "" \/ ~JTruthy(tc) THEN acc
    ELSE IF tc.t # "obj" THEN [acc EXCEPT !.raised = "AttributeError"]
    ELSE
      LET tool_name == Get(tc.f, "name", UnknownName)
          args == OrDefault(Get(tc.f, "arguments", JNull), JObj(EmptyObj))
          counted == [acc EXCEPT !.tool_usage = Bump(@, tool_name)]
      IN  IF tool_name \in {WriteName, BashName} /\ args.t # "obj"
          THEN [counted EXCEPT !.raised = "AttributeError"]
          ELSE [counted EXCEPT !.unreasonable =
                  @ \o (IF tool_name = WriteName THEN WriteFindings(step_num, args)
                        ELSE IF tool_name = BashName THEN BashFindings(step_num, args)
                        ELSE <<>>)]

\* tr.get("error") and tr["error"] != "null" and tr["error"] is not None
HasError(tr) ==
    LET e == Get(tr.f, "error", JNull)
    IN  JTruthy(e) /\ e # JStr(NullWord) /\ e.t # "null"
\* "Binary file" in error_msg: the warning that is skipped
IsBenign_Never(error_msg) == FALSE
IsBenign(error_msg) == Contains(error_msg, BinaryFile)
ErrorEntry_Untruncated(step_num, error_msg) ==
    [step |-> step_num, error |-> error_msg]
ErrorEntry(step_num, error_msg) ==
    [step |-> step_num, error |-> Prefix(error_msg, ErrorLimit)]
\* the body of "for tr in tool_results"
OneToolResult(acc, step_num, tr) ==
    IF acc.raised # "" \/ ~JTruthy(tr) THEN acc
    ELSE IF tr.t # "obj" THEN [acc EXCEPT !.raised = "AttributeError"]
    ELSE IF HasError(tr) /\ ~IsBenign(PyStr(tr.f["error"]))
         THEN [acc EXCEPT !.errors = Append(@, ErrorEntry(step_num, PyStr(tr.f["error"])))]
         ELSE acc

RECURSIVE ForToolCalls(_, _, _)
ForToolCalls(acc, step_num, tool_calls) ==
    IF tool_calls = <<>> THEN acc
    ELSE ForToolCalls(OneToolCall(acc, step_num, Head(tool_calls)), step_num,
                      Tail(tool_calls))
RECURSIVE ForToolResults(_, _, _)
ForToolResults(acc, step_num, tool_results) ==
    IF tool_results = <<>> THEN acc
    ELSE ForToolResults(OneToolResult(acc, step_num, Head(tool_results)), step_num,
                        Tail(tool_results))
\* the body of "for step in agent_steps"
OneStep(acc, step) ==
    IF acc.raised # "" THEN acc
    ELSE IF step.t # "obj" THEN [acc EXCEPT !.raised = "AttributeError"]
    ELSE
      LET step_num == Get(step.f, "step_number", NoStepNumber)
          tool_calls == OrDefault(Get(step.f, "tool_calls", JNull), JList(<<>>))
          tool_results == OrDefault(Get(step.f, "tool_results", JNull), JList(<<>>))
      IN  ForToolResults(ForToolCalls(acc, step_num, tool_calls.l), step_num,
                         tool_results.l)
RECURSIVE ForSteps(_, _)
ForSteps(acc, agent_steps) ==
    IF agent_steps = <<>> THEN acc
    ELSE ForSteps(OneStep(acc, Head(agent_steps)), Tail(agent_steps))

AnalyzeTrajectory(content) ==
    IF content.t = "invalid" THEN ParseError(<<"JSONDecodeError">>)
    ELSE IF content.t # "obj" THEN Raised("AttributeError")
    ELSE
      LET agent_steps == Get(content.f, "agent_steps", JList(<<>>))
          task == Get(content.f, "task", JNull)
      IN  IF agent_steps.t # "list" THEN Raised("TypeError")
          ELSE
            LET acc == ForSteps(FreshAcc(report), agent_steps.l)
            IN  IF acc.raised # "" THEN Raised(acc.raised)
                ELSE [kind |-> "report",
                      total_steps |-> Len(agent_steps.l),
                      errors |-> acc.errors,
                      unreasonable |-> acc.unreasonable,
                      tool_usage |-> acc.tool_usage,
                      task |-> IF JTruthy(task) THEN Prefix(task.s, TaskLimit)
                               ELSE <<>>]

\* Trajectory files the analysis is run on.
ShortError == <<"E", ":", " ", "b", "o", "o", "m">>
BinaryWarning == <<"B", "i", "n", "a", "r", "y", " ", "f", "i", "l", "e", " ", "a", ".", "b", "i", "n", " ", "m", "a", "t", "c", "h", "e", "s">>
LongError == [k \in 1 .. ErrorLimit + 1 |-> IF k <= ErrorLimit THEN "e" ELSE "z"]
LongTmpPath == [k \in 1 .. PathLimit + 1 |-> IF k <= 4 THEN TmpDir[k] ELSE "p"]
LongTask == [k \in 1 .. TaskLimit + 1 |-> "t"]
NonObject == JStr(<<"x">>)
ErrorValues ==
    {Absent, JNull, JStr(NullWord), JStr(<<>>), JStr(BinaryWarning), JStr(ShortError),
     JStr(LongError)}
ResultOf(e) == ObjOf({<<"error", e>>, <<"output", JStr(<<"o">>)>>})
ToolResultLists ==
    {Absent, JNull, JList(<<JNull>>), JList(<<NonObject>>)}
    \cup {JList(<<ResultOf(e)>>) : e \in ErrorValues}
    \cup {JList(<<ResultOf(JStr(ShortError)), ResultOf(JStr(LongError))>>)}
CallOf(name, args) == ObjOf({<<"name", name>>, <<"arguments", args>>})
ArgsOf(key, text) == ObjOf({<<key, JStr(text)>>})
ToolCalls ==
    {JNull, JObj(EmptyObj), NonObject,
     CallOf(Absent, ArgsOf("command", <<"l", "s">>)),
     CallOf(WriteName, ArgsOf("file_path", <<"/", "t", "m", "p", "/", "a">>)),
     CallOf(WriteName, ArgsOf("file_path", <<"/", "s", "r", "c", "/", "a">>)),
     CallOf(WriteName, ArgsOf("file_path", <<"/", "a", "/", "t", "m", "p">>)),
     CallOf(WriteName, ArgsOf("file_path", LongTmpPath)),
     CallOf(BashName, ArgsOf("command", <<"c", "a", "t", " ", "a", ".", "p", "y">>)),
     CallOf(BashName, ArgsOf("command", <<"e", "c", "h", "o", " ", "a", " ", ">", "b">>)),
     CallOf(BashName, ArgsOf("command", <<"e", "c", "h", "o", " ", "a", " ", ">", "b", ".", "p", "y", ";", "c", "a", "t", " ", "b", ".", "p", "y">>)),
     CallOf(BashName, JStr(<<"l", "s">>))}
StepOf(num, calls, outcomes) ==
    ObjOf({<<"step_number", num>>, <<"tool_calls", calls>>, <<"tool_results", outcomes>>})
Steps ==
    {NonObject}
    \cup {StepOf(JNum(1), Absent, r) : r \in ToolResultLists}
    \cup {StepOf(JNum(1), JList(<<c>>), Absent) : c \in ToolCalls}
    \cup {StepOf(Absent, Absent, JList(<<ResultOf(JStr(ShortError))>>)),
          StepOf(JNum(2), Absent, JList(<<ResultOf(JStr(LongError))>>)),
          StepOf(JNum(1), JNull, Absent),
          StepOf(JNum(2),
                 JList(<<CallOf(WriteName, ArgsOf("file_path", <<"/", "t", "m", "p", "/", "a">>)),
                         CallOf(BashName, ArgsOf("command", <<"c", "a", "t", " ", "a", ".", "p", "y">>))>>),
                 JList(<<ResultOf(JStr(ShortError))>>))}
SeqsUpTo(S, k) == UNION {[1 .. m -> S] : m \in 0 .. k}
TrajectoryOf(steps, task) == ObjOf({<<"agent_steps", steps>>, <<"task", task>>})
Trajectories ==
    {JInvalid, JNull, JList(<<>>), TrajectoryOf(Absent, Absent), TrajectoryOf(JNull, Absent)}
    \cup {TrajectoryOf(JList(steps), Absent) : steps \in SeqsUpTo(Steps, MaxSteps)}
    \cup {TrajectoryOf(JList(<<>>), JStr(t)) : t \in {<<"f", "i", "x">>, LongTask}}

\* The batches of main in the batch specification: few contents, several files.
BatchTrajectories ==
    {JInvalid, JList(<<>>),
     TrajectoryOf(JList(<<>>), Absent),
     TrajectoryOf(JList(<<StepOf(JNum(1),
                                 JList(<<CallOf(WriteName, ArgsOf("file_path", <<"/", "t", "m", "p", "/", "a">>))>>),
                                 JList(<<ResultOf(JStr(ShortError))>>))>>), Absent),
     TrajectoryOf(JList(<<StepOf(JNum(1),
                                 JList(<<CallOf(BashName, ArgsOf("command", <<"c", "a", "t", " ", "a", ".", "p", "y">>))>>),
                                 JList(<<ResultOf(JStr(LongError))>>))>>), Absent),
     TrajectoryOf(JList(<<StepOf(JNum(2),
                                 JList(<<CallOf(WriteName, ArgsOf("file_path", <<"/", "s", "r", "c", "/", "a">>))>>),
                                 JList(<<ResultOf(JStr(BinaryWarning))>>))>>), Absent)}
\* sorted(trajectory_files): the files come ordered by instance directory
SortedByDir(fs) == \A k \in 1 .. Len(fs) - 1 : fs[k].dir <= fs[k + 1].dir
FilesOf(contents, dirs, maxlen) ==
    {fs \in UNION {[1 .. m -> [dir : dirs, content : contents]] : m \in 1 .. maxlen} :
       SortedByDir(fs)}

\* s.split(sep)[0]
SplitFirst(s, sep) ==
    IF \E k \in 1 .. Len(s) : s[k] = sep
    THEN SubSeq(s, 1, (CHOOSE k \in 1 .. Len(s) :
                         s[k] = sep /\ \A m \in 1 .. k - 1 : s[m] # sep) - 1)
    ELSE s
SummaryLimit == 50
\* all_results[instance_id] = result
PutResult(all, dir, res) ==
    [d \in DOMAIN all \cup {dir} |-> IF d = dir THEN res ELSE all[d]]
\* result.get("parse_error"): main skips the file
IsParseError(res) == "parse_error" \in DOMAIN res /\ res.parse_error # <<>>
RECURSIVE SummarizeErrors(_, _)
SummarizeErrors(summary, errs) ==
    IF errs = <<>> THEN summary
    ELSE SummarizeErrors(
           Bump(summary, Prefix(SplitFirst(Head(errs).error, ":"), SummaryLimit)),
           Tail(errs))
RECURSIVE SummarizeIssues(_, _)
SummarizeIssues(summary, issues) ==
    IF issues = <<>> THEN summary
    ELSE SummarizeIssues(Bump(summary, SplitFirst(Head(issues).issue, ":")), Tail(issues))
\* the loop over all_results.values() that adds up tool_usage
RECURSIVE TotalToolUsage(_, _)
TotalToolUsage(all, dirs) ==
    IF dirs = {} THEN [name \in {} |-> 0]
    ELSE LET d == CHOOSE d \in dirs : TRUE
             rest == TotalToolUsage(all, dirs \ {d})
             usage == IF "tool_usage" \in DOMAIN all[d] THEN all[d].tool_usage
                      ELSE [name \in {} |-> 0]
         IN  [name \in DOMAIN rest \cup DOMAIN usage |->
                Get(rest, name, 0) + Get(usage, name, 0)]

\* main, line 93: result = analyze_trajectory(traj_file); an exception leaves main
AnalyzeTrajectoryCall ==
    /\ prog = "analyze" /\ pc = "a_next" /\ i <= n
    /\ traj' = files[i].content
    /\ report' = AnalyzeTrajectory(files[i].content)
    /\ reports' = Append(reports, report')
    /\ pc' = IF report'.kind = "raised" THEN "a_crashed" ELSE "a_result"
    /\ UNCHANGED <<prog, n, i, log, runVars, evalVars, files, all_results, error_summary,
                   unreasonable_summary, total_tool_usage>>

\* main, lines 94-120: the rest of the loop body, then the next file
MainSummarize ==
    /\ prog = "analyze" /\ pc = "a_result"
    /\ all_results' = PutResult(all_results, files[i].dir, report)
    /\ IF IsParseError(report)
       THEN UNCHANGED <<error_summary, unreasonable_summary>>
       ELSE /\ error_summary' = SummarizeErrors(error_summary, report.errors)
            /\ unreasonable_summary' =
                 SummarizeIssues(unreasonable_summary, report.unreasonable)
    /\ i' = i + 1
    /\ pc' = "a_next"
    /\ UNCHANGED <<prog, n, log, runVars, evalVars, traj, report, files, total_tool_usage,
                   reports>>

\* main, lines 122-149: the summary after the loop
MainTotals ==
    /\ prog = "analyze" /\ pc = "a_next" /\ i > n
    /\ total_tool_usage' = TotalToolUsage(all_results, DOMAIN all_results)
    /\ pc' = "a_done"
    /\ UNCHANGED <<prog, n, i, log, runVars, evalVars, traj, report, files, all_results,
                   error_summary, unreasonable_summary, reports>>

----------------------------------------------------------------------------
(* evaluate_local.py : the django test command *)

\* a text is a sequence of characters; a line is the list line.split() gives,
\* its words having been separated by single blanks; a test patch is the list
\* of lines test_patch.split("\n") gives
DiffWord == <<"d", "i", "f", "f">>
GitWord == <<"-", "-", "g", "i", "t">>
TestWord == <<"t", "e", "s", "t">>
DotPy == <<".", "p", "y">>
DefaultCmd ==
    << <<"p", "y", "t", "h", "o", "n">>,
       <<"t", "e", "s", "t", "s", "/", "r", "u", "n", "t", "e", "s", "t", "s", ".", "p", "y">>,
       <<"-", "-", "v", "e", "r", "b", "o", "s", "i", "t", "y", "=", "2">> >>
MaxLines == 4
ModuleLimit == 3

\* s.lstrip(chars): drops every leading character that is in the set chars
RECURSIVE LStripChars(_, _)
LStripChars(s, chars) ==
    IF s # <<>> /\ Head(s) \in chars THEN LStripChars(Tail(s), chars) ELSE s

\* s.replace(old, new): every occurrence, leftmost first
RECURSIVE ReplaceAll(_, _, _)
ReplaceAll(s, old, new) ==
    IF Len(s) < Len(old) THEN s
    ELSE IF SubSeq(s, 1, Len(old)) = old
         THEN new \o ReplaceAll(SubSeq(s, Len(old) + 1, Len(s)), old, new)
         ELSE <<Head(s)>> \o ReplaceAll(Tail(s), old, new)

\* line.startswith("diff --git")
StartsWithDiffGit(line) ==
    Len(line) >= 2 /\ line[1] = DiffWord /\ Prefix(line[2], Len(GitWord)) = GitWord

\* parts[3].lstrip("b/")
FilePath(parts) == LStripChars(parts[4], {"b", "/"})
\* file_path.replace("/", ".").replace(".py", "")
ModuleOf(file_path) == ReplaceAll(ReplaceAll(file_path, <<"/">>, <<".">>), DotPy, <<>>)

\* the for loop over the lines of the test patch
RECURSIVE TestFiles(_)
TestFiles(lines) ==
    IF lines = <<>> THEN <<>>
    ELSE LET line == Head(lines)
             found == IF StartsWithDiffGit(line) /\ Len(line) >= 4
                         /\ Contains(FilePath(line), TestWord)
                      THEN <<ModuleOf(FilePath(line))>>
                      ELSE <<>>
         IN found \o TestFiles(Tail(lines))

\* the list _get_django_test_cmd returns
DjangoTestCmd(lines) ==
    LET test_files == TestFiles(lines) IN
    IF test_files # <<>> THEN DefaultCmd \o Prefix(test_files, ModuleLimit)
    ELSE DefaultCmd

\* the paths a test patch changes, and the lines it is made of
TestsA == <<"t", "e", "s", "t", "s", "/", "a", ".", "p", "y">>
TestsB == <<"t", "e", "s", "t", "s", "/", "b", ".", "p", "y">>
BTest == <<"b", "/", "t", "e", "s", "t", ".", "p", "y">>
DocsA == <<"d", "o", "c", "s", "/", "a", ".", "p", "y">>
TestsPy == <<"t", "e", "s", "t", "s", "/", "p", "y", ".", "p", "y">>
ChangedPaths == {TestsA, TestsB, BTest, DocsA, TestsPy}
DiffLine(p) == <<DiffWord, GitWord, <<"a", "/">> \o p, <<"b", "/">> \o p>>
HunkLine == << <<"+", "x">> >>
ShortDiffLine == <<DiffWord, GitWord, <<"a", "/">> \o TestsA>>
PatchLines == {DiffLine(p) : p \in ChangedPaths} \cup {HunkLine, ShortDiffLine}
TestPatches == SeqsUpTo(PatchLines, MaxLines)

\* run_tests for a django instance: test_cmd = self._get_django_test_cmd(...)
GetDjangoTestCmd ==
    /\ prog = "django" /\ pc = "d_cmd"
    /\ test_cmd' = DjangoTestCmd(test_patch)
    /\ pc' = "d_done"
    /\ UNCHANGED <<prog, n, i, log, runVars, analyzeVars, model_patch, test_patch,
                   verdict, etree, test_result, errWrites, results, outfile>>

----------------------------------------------------------------------------
(* External processes that never exit *)

\* the steps at which the pipeline waits for an external process or the network
ExternalSteps ==
    {"setup", "reset", "agent", "extract",
     "e_fetch", "e_setup", "e_check", "e_apply", "e_testpatch", "e_tests"}
\* whether the call made at the step is given a timeout
StepTimeout(step) == step \in {"agent", "e_fetch", "e_tests"}

\* subprocess.run without timeout never returns when the process never exits;
\* with a timeout the step ends with its timeout outcome instead
ExternalProcessNeverExits ==
    /\ prog \in {"run_agent", "evaluate"}
    /\ pc \in ExternalSteps
    /\ pc = "e_testpatch" => ~IsBlank(test_patch)
    /\ ~StepTimeout(pc)
    /\ pc' = "hung"
    /\ UNCHANGED <<prog, n, i, log, runVars, evalVars, analyzeVars>>

----------------------------------------------------------------------------
(* Specification *)

InitRun ==
    /\ prog = "run_agent" /\ pc = "next"
    /\ max_retries \in 0 .. MaxRetriesBound
    /\ n \in 1 .. MaxBatch /\ files = <<>>

InitEval ==
    /\ prog = "evaluate" /\ pc = "e_next"
    /\ max_retries = 0
    /\ n \in 1 .. MaxBatch /\ files = <<>>

\* one trajectory file of any content
InitAnalyze ==
    /\ prog = "analyze" /\ pc = "a_next"
    /\ max_retries = 0
    /\ files \in FilesOf(Trajectories, {1}, 1) /\ n = Len(files)

\* several trajectory files in several instance directories
InitAnalyzeBatch ==
    /\ prog = "analyze" /\ pc = "a_next"
    /\ max_retries = 0
    /\ files \in FilesOf(BatchTrajectories, 1 .. MaxDirs, MaxFiles) /\ n = Len(files)

InitOther ==
    /\ traj = NoTraj /\ report = NoReport /\ reports = <<>>
    /\ all_results = [d \in {} |-> NoReport]
    /\ error_summary = [e \in {} |-> 0] /\ unreasonable_summary = [e \in {} |-> 0]
    /\ total_tool_usage = [e \in {} |-> 0]
    /\ i = 1 /\ log = <<>>
    /\ result = NoResult /\ attempt = 0 /\ success = FALSE /\ patch = None
    /\ wt = NoTree /\ invocations = 0 /\ attempts = <<>>
    /\ predictions = <<>> /\ saved = NoFile
    /\ model_patch = <<>> /\ verdict = NoVerdict
    /\ etree = NoEvalTree /\ test_result = NoTestResult /\ errWrites = 0
    /\ test_cmd = <<>>
    /\ results = <<>> /\ outfile = NoFile

InitRest == InitOther /\ test_patch = <<>>

Init == (InitRun \/ InitEval \/ InitAnalyze) /\ InitRest

InitBatch == InitAnalyzeBatch /\ InitRest

NextRun ==
    \/ EvaluateInstanceBegin
    \/ SetupInstance
    \/ ResetWorkingTree
    \/ RunAgent
    \/ ExtractPatch
    \/ AppendPrediction
    \/ RunSummary

NextEval ==
    \/ EvaluatePredictionBegin
    \/ FetchInstanceData
    \/ SetupInstanceEval
    \/ ApplyPatchWrite
    \/ ApplyPatchCheck
    \/ ApplyPatchApply
    \/ ApplyTestPatch
    \/ RunTests
    \/ AppendVerdict
    \/ SaveResults

NextAnalyze ==
    \/ AnalyzeTrajectoryCall
    \/ MainSummarize
    \/ MainTotals

Next == NextRun \/ NextEval \/ NextAnalyze

Spec == Init /\ [][Next]_vars

SpecBatch == InitBatch /\ [][NextAnalyze]_vars

\* one instance, with external processes that may never exit
InitHang == (InitRun \/ InitEval) /\ InitRest /\ n = 1

NextHang == NextRun \/ NextEval \/ ExternalProcessNeverExits

SpecHang == InitHang /\ [][NextHang]_vars

\* the django test command, for every test patch of at most MaxLines lines
InitDjango ==
    /\ prog = "django" /\ pc = "d_cmd"
    /\ max_retries = 0 /\ n = 1 /\ files = <<>>
    /\ InitOther
    /\ test_patch \in TestPatches

SpecDjango == InitDjango /\ [][GetDjangoTestCmd]_vars

----------------------------------------------------------------------------
(* Properties *)

InLog(e) == \E k \in 1 .. Len(log) : log[k] = e
LastLog == IF log = <<>> THEN "" ELSE log[Len(log)]
Running == prog = "run_agent"
Evaluating == prog = "evaluate"
\* attempt k of the current instance has gone through extract_patch
Extracted(k) == k < Len(attempts) \/ pc # "extract"

\* C1: evaluate_instance calls run_agent at most max_retries + 1 times for an
\* instance, whatever the outcome of each attempt.
C1_InvocationBound ==
    Running => /\ invocations <= max_retries + 1
               /\ Len(attempts) = invocations
C1_Witness ==
    /\ Running /\ pc = "return" /\ max_retries >= 1
    /\ invocations = max_retries + 1
    /\ \E k \in 1 .. Len(attempts) : attempts[k].outcome = "timeout"
    /\ \E k \in 1 .. Len(attempts) : attempts[k].outcome = "nonzero"

\* C2 (as claimed): every real apply, of the model patch or of the test patch,
\* comes after a successful dry run of that same patch.
C2_Original ==
    Evaluating =>
      \A k \in 1 .. Len(log) :
        /\ log[k] \in {"apply_ok", "apply_failed"}
             => \E m \in 1 .. k - 1 : log[m] = "check_ok"
        /\ log[k] \in {"test_apply_ok", "test_apply_failed"}
             => \E m \in 1 .. k - 1 : log[m] = "test_check_ok"
\* C2 (amended): the model patch is applied only after its dry run succeeded
\* and never after a failed dry run; the test patch is applied directly, the
\* step before its apply being the apply of the model patch.
C2_Amended ==
    Evaluating =>
      /\ \A k \in 1 .. Len(log) :
           /\ log[k] \in {"apply_ok", "apply_failed"} => k > 1 /\ log[k - 1] = "check_ok"
           /\ log[k] \in {"test_apply_ok", "test_apply_failed"}
                => k > 1 /\ log[k - 1] = "apply_ok"
      /\ "model" \in etree.applied => InLog("check_ok")
      /\ InLog("check_failed") \/ InLog("check_raised")
           => ~InLog("apply_ok") /\ ~InLog("apply_failed") /\ etree.applied = {}
C2_Witness ==
    /\ Evaluating /\ etree.applied = {"model", "test"}
    /\ InLog("check_ok") /\ InLog("test_apply_ok")

\* C3: a verdict is resolved only if the model patch was applied, the test
\* patch step succeeded and the test process exited with status 0.
TestPatchStepOk ==
    /\ ~InLog("test_apply_failed") /\ ~InLog("write_test_patch_raised")
    /\ Strip(test_patch) = <<>> \/ InLog("test_apply_ok")
C3_ResolvedOnlyIf ==
    Evaluating =>
      /\ verdict.resolved =>
           /\ verdict.patch_applied /\ "model" \in etree.applied
           /\ TestPatchStepOk
           /\ LastLog = "tests_exit0"
      /\ \A k \in 1 .. Len(results) : results[k].resolved => results[k].patch_applied
C3_Witness ==
    /\ Evaluating /\ pc = "e_return" /\ verdict.resolved
    /\ InLog("test_apply_ok")

\* C4: the error field of a verdict is assigned at most once, and a resolved
\* verdict carries no error.
C4_OneClassification ==
    Evaluating =>
      /\ errWrites <= 1
      /\ verdict.error # "" => errWrites = 1
      /\ verdict.resolved => verdict.error = ""
      /\ \A k \in 1 .. Len(results) : results[k].resolved => results[k].error = ""
C4_Witness ==
    /\ Evaluating /\ pc = "e_return"
    /\ Len(results) = 1 /\ results[1].resolved /\ results[1].error = ""
    /\ verdict.error = "Test timeout" /\ errWrites = 1

\* C5 (as claimed): an attempt whose agent run timed out is the last attempt of
\* its instance.
C5_Original ==
    Running =>
      \A k \in 1 .. Len(attempts) :
        attempts[k].outcome = "timeout" => k = Len(attempts)
\* C5 (amended): an attempt whose agent run timed out makes run_agent return
\* False, and it is followed by another invocation exactly when the diff extracted after it is empty and attempts
\* remain (and the reset did not raise); a timeout that left a diff ends the loop.
C5_Amended ==
    Running =>
      \A k \in 1 .. Len(attempts) :
        LET a == attempts[k] IN
        (a.outcome = "timeout" /\ Extracted(k)) =>
          /\ a.returned = FALSE
          /\ k < Len(attempts) => a.patch = None /\ a.index < max_retries
          /\ (k = Len(attempts) /\ a.patch = None /\ a.index < max_retries)
               => pc \in {"reset", "agent"} \/ LastLog = "reset_raised"
          /\ (k = Len(attempts) /\ a.patch # None)
               => pc \notin {"reset", "agent"} /\ result.model_patch = a.patch
C5_Witness ==
    /\ Running /\ Len(attempts) = 2
    /\ attempts[1].outcome = "timeout" /\ attempts[1].patch = None

\* C6 (as claimed): run_agent reports a timeout with a value different from
\* the one it reports for a nonzero exit, and so does run_tests.
C6_Original ==
    /\ Running =>
         \A k, m \in 1 .. Len(attempts) :
           (attempts[k].outcome = "timeout" /\ attempts[m].outcome = "nonzero")
             => attempts[k].returned # attempts[m].returned
    /\ Evaluating =>
         (LastLog = "tests_timeout" => test_result.error = "Test timeout")
\* C6 (amended): run_tests reports a timeout (error "Test timeout") apart from
\* a nonzero exit (empty error), both with passed = false; run_agent returns
\* False for a timeout and for a nonzero exit alike.
C6_Amended ==
    /\ Evaluating =>
         /\ LastLog = "tests_timeout"
              => ~test_result.passed /\ test_result.error = "Test timeout"
         /\ LastLog = "tests_nonzero"
              => ~test_result.passed /\ test_result.error = ""
    /\ Running =>
         \A k \in 1 .. Len(attempts) :
           attempts[k].outcome \in {"timeout", "nonzero"}
             => attempts[k].returned = FALSE
C6_Witness ==
    /\ Running /\ Len(attempts) = 2
    /\ attempts[1].outcome = "timeout" /\ attempts[2].outcome = "nonzero"
    /\ attempts[1].returned = attempts[2].returned

\* C7 (as claimed): the verdict for an empty or whitespace-only model patch
\* carries no patch-application failure.
C7_Original ==
    (Evaluating /\ InLog("setup") /\ pc = "e_return" /\ Strip(model_patch) = <<>>)
      => verdict.error # "Failed to apply model patch"
\* C7 (amended): an empty or whitespace-only model patch leaves the working
\* tree untouched (no file written, no dry run, no apply, no test run) and the
\* verdict carries the patch-application failure; an empty or whitespace-only
\* test patch is skipped without an error.
C7_Amended ==
    Evaluating =>
      /\ (InLog("setup") /\ pc # "e_patch" /\ Strip(model_patch) = <<>>) =>
           /\ LastLog = "setup"
           /\ etree = [exists |-> TRUE, files |-> {}, applied |-> {}]
           /\ verdict.error = "Failed to apply model patch"
           /\ ~verdict.patch_applied /\ ~verdict.resolved
      /\ (InLog("apply_ok") /\ pc # "e_testpatch" /\ Strip(test_patch) = <<>>) =>
           /\ "test.patch" \notin etree.files /\ "test" \notin etree.applied
           /\ verdict.error # "Failed to apply test patch"
           /\ pc = "e_tests" \/ \E o \in {"exit0", "nonzero", "timeout", "error"} :
                                  LastLog = "tests_" \o o
C7_Witness ==
    /\ Evaluating /\ pc = "e_return" /\ model_patch = <<" ">>
    /\ verdict.error = "Failed to apply model patch"

\* C8: when every one of the max_retries + 1 attempts yields an empty diff, the
\* loop ends after exactly max_retries + 1 invocations with an empty patch, and
\* the record appended to the batch is an ordinary prediction record.
AllAttemptsEmpty ==
    /\ InLog("setup") /\ ~InLog("reset_raised")
    /\ \A k \in 1 .. Len(attempts) : attempts[k].patch = None
C8_AllEmpty ==
    (Running /\ pc \in {"return", "next", "done"} /\ AllAttemptsEmpty) =>
      /\ invocations = max_retries + 1
      /\ result.model_patch = <<>>
      /\ pc # "return" =>
           /\ Len(predictions) = i - 1
           /\ predictions[i - 1] = NewResult(i - 1)
           /\ saved = {predictions}
C8_Witness ==
    /\ Running /\ pc = "next" /\ max_retries = 1 /\ AllAttemptsEmpty
    /\ invocations = 2 /\ predictions[Len(predictions)].model_patch = <<>>

\* C9: a model patch whose dry run fails is never passed to the real apply;
\* the verdict records the patch-application failure and neither the test
\* patch nor the test command is run.
C9_DryRunFailed ==
    (Evaluating /\ InLog("check_failed")) =>
      /\ LastLog = "check_failed"
      /\ etree.applied = {} /\ "test.patch" \notin etree.files
      /\ pc \in {"e_return", "e_next", "e_done"}
      /\ verdict.error = "Failed to apply model patch"
      /\ ~verdict.patch_applied /\ ~verdict.resolved
      /\ test_result = NoTestResult
C9_Witness ==
    /\ Evaluating /\ pc = "e_next" /\ LastLog = "check_failed"
    /\ results[Len(results)].error = "Failed to apply model patch"

\* C10: a test run that exceeds its deadline gives a verdict with
\* resolved = false and the error "Test timeout"; a test run that exits
\* nonzero gives a verdict with resolved = false and another error field.
C10_TestTimeout ==
    Evaluating =>
      /\ InLog("tests_timeout") =>
           ~verdict.resolved /\ verdict.error = "Test timeout"
      /\ InLog("tests_nonzero") =>
           ~verdict.resolved /\ verdict.error # "Test timeout"
C10_Witness ==
    /\ Evaluating /\ pc = "e_next" /\ InLog("tests_timeout")
    /\ results[Len(results)].error = "Test timeout"
    /\ ~results[Len(results)].resolved

\* C11 (as claimed): every exception raised while an instance is evaluated ends
\* in a record of that instance with resolved = false and a non-empty error.
EvalExceptionEvents ==
    {"setup_failed", "write_model_patch_raised", "check_raised", "apply_failed",
     "write_test_patch_raised", "test_apply_failed", "tests_error"}
RunExceptionEvents == {"setup_failed", "reset_raised"}
C11_Original ==
    /\ (Evaluating /\ LastLog \in EvalExceptionEvents)
         => ~verdict.resolved /\ verdict.error # ""
    /\ (Running /\ LastLog \in RunExceptionEvents)
         => "error" \in DOMAIN result /\ result.error # ""
\* C11 (amended): no exception leaves the per-instance boundary and the batch
\* goes on; evaluate_prediction turns it into a verdict with resolved = false
\* and a non-empty error, evaluate_instance into an ordinary prediction record
\* with an empty patch and no error field.
C11_Amended ==
    /\ Evaluating =>
         /\ LastLog \in EvalExceptionEvents =>
              /\ pc \in {"e_return", "e_next", "e_done"}
              /\ ~verdict.resolved /\ verdict.error # ""
         /\ pc \in {"e_next", "e_done"} => Len(results) = i - 1
         /\ pc = "e_done" => i = n + 1
    /\ Running =>
         /\ LastLog \in RunExceptionEvents =>
              /\ pc \in {"return", "next", "done"}
              /\ result = NewResult(result.instance_id)
              /\ DOMAIN result = {"instance_id", "model_patch", "model_name_or_path"}
         /\ \A k \in 1 .. Len(attempts) :
              attempts[k].outcome = "error" => attempts[k].returned = FALSE
         /\ pc \in {"next", "done"} => Len(predictions) = i - 1
         /\ pc = "done" => i = n + 1
C11_Witness ==
    /\ Evaluating /\ pc = "e_done" /\ n = 2
    /\ results[1].error = "CalledProcessError" /\ ~results[1].resolved
    /\ results[2].resolved

\* C12: when the batch run is over the list holds one record per instance, in
\* input order; a record is appended once and never changed afterwards.
RecordsInOrder(list) ==
    /\ \A k \in 1 .. Len(list) : list[k].instance_id = k
    /\ Len(list) = IF pc \in {"return", "e_return"} THEN i - 1 ELSE Len(list)
    /\ pc \in {"next", "done", "e_next", "e_done"} => Len(list) = i - 1
    /\ pc \in {"done", "e_done"} => Len(list) = n
PrefixKept(old, new) ==
    /\ Len(new) >= Len(old)
    /\ \A k \in 1 .. Len(old) : new[k] = old[k]
C12_BatchRecords ==
    /\ [](RecordsInOrder(IF Running THEN predictions ELSE results))
    /\ [][PrefixKept(predictions, predictions') /\ PrefixKept(results, results')]_vars
C12_Witness ==
    /\ Running /\ pc = "done" /\ n = 2 /\ Len(predictions) = 2
    /\ predictions[1].model_patch = <<"a">> /\ predictions[2].model_patch = <<>>

C14_AttemptOrder ==
    Running =>
      /\ \A k \in 1 .. Len(log) :
           /\ log[k] = "invoke" =>
                IF k = 2 THEN log[1] = "setup" ELSE k > 2 /\ log[k - 1] = "reset"
           /\ log[k] = "extract" => k > 1 /\ log[k - 1] = "invoke"
           /\ log[k] \in {"reset", "reset_raised"} => k > 3 /\ log[k - 1] = "extract"
      /\ \A k \in 1 .. Len(attempts) : attempts[k].index = k - 1
      /\ pc \in {"reset", "agent", "extract"} =>
           attempt = (IF pc = "extract" THEN Len(attempts) - 1 ELSE Len(attempts))
C14_Witness ==
    /\ Running
    /\ log = <<"setup", "invoke", "extract", "reset", "invoke", "extract">>
    /\ attempts[2].index = 1

\* C15: once an attempt's extracted diff is non-empty the loop is over: no
\* reset and no invocation follows, and model_patch is that attempt's diff.
C15_StopOnPatch ==
    Running =>
      \A k \in 1 .. Len(attempts) :
        (Extracted(k) /\ attempts[k].patch # None) =>
          /\ k = Len(attempts) /\ LastLog = "extract"
          /\ pc \in {"return", "next", "done"}
          /\ result.model_patch = attempts[k].patch
          /\ result.model_patch = Strip(GitDiffStdout(wt))
          /\ pc # "return" => predictions[i - 1].model_patch = attempts[k].patch
C15_Witness ==
    /\ Running /\ pc = "next" /\ Len(attempts) = 2
    /\ attempts[1].patch = None /\ attempts[2].patch = <<"b">>
    /\ predictions[Len(predictions)].model_patch = <<"b">>

\* C16: a failed setup ends the instance at once: nothing else is run for it,
\* and its record is still produced.
C16_SetupFatal ==
    /\ (Running /\ InLog("setup_failed")) =>
         /\ log = <<"setup_failed">>
         /\ invocations = 0 /\ attempts = <<>> /\ wt = NoTree
         /\ pc \in {"return", "next", "done"}
         /\ pc # "return" => predictions[i - 1] = NewResult(i - 1)
    /\ (Evaluating /\ InLog("setup_failed")) =>
         /\ log = <<"fetch", "setup_failed">>
         /\ etree = NoEvalTree /\ test_result = NoTestResult
         /\ ~verdict.patch_applied /\ ~verdict.resolved
         /\ pc \in {"e_return", "e_next", "e_done"}
         /\ pc # "e_return" => results[i - 1] = verdict /\ verdict.instance_id = i - 1
C16_Witness ==
    /\ Running /\ pc = "done" /\ n = 2 /\ log = <<"setup_failed">>
    /\ Len(predictions) = 2

\* C17: the steps of an instance run in order: setup before every invocation,
\* an invocation before its extraction, the model patch before the test patch,
\* the tests only after both patch steps succeeded.
TestEvents == {"tests_exit0", "tests_nonzero", "tests_timeout", "tests_error"}
Before(e, k) == \E m \in 1 .. k - 1 : log[m] = e
C17_Sequential ==
    /\ Running =>
         \A k \in 1 .. Len(log) :
           /\ log[k] = "invoke" => Before("setup", k)
           /\ log[k] = "extract" => Before("invoke", k) /\ log[k - 1] = "invoke"
    /\ Evaluating =>
         \A k \in 1 .. Len(log) :
           /\ log[k] \in {"write_model_patch", "check_ok", "check_failed", "apply_ok"}
                => Before("setup", k)
           /\ log[k] \in {"test_apply_ok", "test_apply_failed"} => Before("apply_ok", k)
           /\ log[k] \in TestEvents =>
                /\ Before("apply_ok", k)
                /\ TestPatchStepOk
                /\ k = Len(log)
                /\ \A m \in 1 .. k - 1 : log[m] \notin EvalExceptionEvents
C17_Witness ==
    /\ Evaluating
    /\ log = <<"fetch", "setup", "write_model_patch", "check_ok", "apply_ok",
               "test_apply_ok", "tests_exit0">>

\* C18: an empty or whitespace-only test patch is skipped and the tests run;
\* a test patch that fails to apply ends the instance with the test-patch
\* failure, resolved = false, and the tests are not run.
C18_TestPatchStep ==
    Evaluating =>
      /\ (InLog("apply_ok") /\ pc # "e_testpatch" /\ Strip(test_patch) = <<>>) =>
           /\ ~InLog("test_apply_ok") /\ ~InLog("test_apply_failed")
           /\ etree.applied = {"model"} /\ etree.files = {"model.patch"}
           /\ pc = "e_tests" \/ LastLog \in TestEvents
      /\ InLog("test_apply_failed") =>
           /\ Strip(test_patch) # <<>>
           /\ LastLog = "test_apply_failed"
           /\ pc \in {"e_return", "e_next", "e_done"}
           /\ verdict.error = "Failed to apply test patch"
           /\ ~verdict.resolved /\ verdict.patch_applied
           /\ test_result = NoTestResult
C18_Witness ==
    /\ Evaluating /\ pc = "e_next" /\ LastLog = "test_apply_failed"
    /\ results[Len(results)].error = "Failed to apply test patch"
    /\ test_patch = <<" ", "d">>

Analysing == prog = "analyze"
\* analyze_trajectory has been called on traj and report is what came of it
Analysed == Analysing /\ pc \in {"a_result", "a_crashed"}
ElementsOf(f, key) ==
    LET v == Get(f, key, JNull) IN IF v.t = "list" THEN v.l ELSE <<>>
WellFormedStep(step) ==
    /\ step.t = "obj"
    /\ \A k \in 1 .. Len(ElementsOf(step.f, "tool_calls")) :
         ElementsOf(step.f, "tool_calls")[k].t = "obj"
    /\ \A k \in 1 .. Len(ElementsOf(step.f, "tool_results")) :
         ElementsOf(step.f, "tool_results")[k].t = "obj"
WellFormed(content) ==
    /\ content.t = "obj"
    /\ "agent_steps" \in DOMAIN content.f => content.f["agent_steps"].t = "list"
    /\ \A k \in 1 .. Len(ElementsOf(content.f, "agent_steps")) :
         WellFormedStep(ElementsOf(content.f, "agent_steps")[k])

\* C19: on any content that is not a well-formed trajectory (invalid JSON, a
\* top-level list, a null agent_steps, a non-object step, tool call or tool
\* result) analyze_trajectory does not raise and returns a report holding only
\* the parse-error marker.
C19_NeverRaises ==
    (Analysed /\ ~WellFormed(traj)) =>
      /\ pc = "a_result"
      /\ report.kind = "parse_error"
      /\ DOMAIN report = {"kind", "parse_error"}

\* the tool results of a trajectory, as (step index, result index)
ResultSlots(content) ==
    UNION {{<<a, b>> : b \in 1 .. Len(ElementsOf(ElementsOf(content.f, "agent_steps")[a].f,
                                                "tool_results"))} :
           a \in 1 .. Len(ElementsOf(content.f, "agent_steps"))}
StepAt(content, p) == ElementsOf(content.f, "agent_steps")[p[1]]
ResultAt(content, p) == ElementsOf(StepAt(content, p).f, "tool_results")[p[2]]
ErrorString(tr) ==
    IF tr.t = "obj" /\ "error" \in DOMAIN tr.f /\ tr.f["error"].t = "str"
    THEN <<tr.f["error"].s>> ELSE <<>>
\* an error string that is not the literal "null" and not a binary-file warning
ClaimedError(tr) ==
    /\ ErrorString(tr) # <<>>
    /\ ErrorString(tr)[1] # NullWord
    /\ ~Contains(ErrorString(tr)[1], BinaryFile)
Rank(P, p) ==
    1 + Cardinality({q \in P : q[1] < p[1] \/ (q[1] = p[1] /\ q[2] < p[2])})
\* report.errors holds one entry per slot of P, in step order
ErrorsAre(content, P) ==
    /\ Len(report.errors) = Cardinality(P)
    /\ \A p \in P :
         LET entry == report.errors[Rank(P, p)]
             msg == ErrorString(ResultAt(content, p))[1]
         IN  /\ entry.step = Get(StepAt(content, p).f, "step_number", NoStepNumber)
             /\ Len(entry.error) <= ErrorLimit
             /\ entry.error = SubSeq(msg, 1, Len(entry.error))
             /\ Len(msg) <= ErrorLimit => entry.error = msg

\* C20 (as claimed): every tool result whose error is a string other than
\* "null" and without "Binary file" gives exactly one entry, cut to 200
\* characters, in step order.
C20_Original ==
    (Analysed /\ report.kind = "report") =>
      ErrorsAre(traj, {p \in ResultSlots(traj) : ClaimedError(ResultAt(traj, p))})
\* C20 (amended): the same for every such error string that is also non-empty;
\* an empty error string gives no entry.
C20_Amended ==
    (Analysed /\ report.kind = "report") =>
      ErrorsAre(traj, {p \in ResultSlots(traj) :
                         /\ ClaimedError(ResultAt(traj, p))
                         /\ ErrorString(ResultAt(traj, p))[1] # <<>>})
C20_Witness ==
    /\ Analysed /\ report.kind = "report"
    /\ Len(ElementsOf(traj.f, "agent_steps")) = 2
    /\ ElementsOf(traj.f, "agent_steps")[1] = StepOf(JNum(1), Absent, JList(<<ResultOf(JStr(<<>>))>>))
    /\ Len(report.errors) = 1
    /\ report.errors[1].step = JNum(2)
    /\ Len(report.errors[1].error) = ErrorLimit

\* C21: a tool result whose error string contains "Binary file" gives no error
\* entry; a trajectory whose only errors are such warnings has an empty
\* errors list.
BinarySlots(content) ==
    {p \in ResultSlots(content) :
       /\ ErrorString(ResultAt(content, p)) # <<>>
       /\ Contains(ErrorString(ResultAt(content, p))[1], BinaryFile)}
C21_BinaryFileSkipped ==
    (Analysed /\ report.kind = "report") =>
      /\ \A k \in 1 .. Len(report.errors) : ~Contains(report.errors[k].error, BinaryFile)
      /\ Len(report.errors) <= Cardinality(ResultSlots(traj) \ BinarySlots(traj))
      /\ (\A p \in ResultSlots(traj) \ BinarySlots(traj) : ~ClaimedError(ResultAt(traj, p)))
           => report.errors = <<>>
C21_Witness ==
    /\ Analysed /\ report.kind = "report"
    /\ Cardinality(BinarySlots(traj)) = 2
    /\ report.errors = <<>> /\ report.total_steps = 2

\* the tool calls of a trajectory, as (step index, call index)
CallSlots(content) ==
    UNION {{<<a, b>> : b \in 1 .. Len(ElementsOf(ElementsOf(content.f, "agent_steps")[a].f,
                                                "tool_calls"))} :
           a \in 1 .. Len(ElementsOf(content.f, "agent_steps"))}
CallAt(content, p) == ElementsOf(StepAt(content, p).f, "tool_calls")[p[2]]
\* the call is an object naming this tool
Names(tc, tool) == tc.t = "obj" /\ "name" \in DOMAIN tc.f /\ tc.f["name"] = tool
\* the text argument of a call, "" when it has none
Argument(tc, key) ==
    LET args == Get(tc.f, "arguments", JNull)
    IN  IF args.t = "obj" /\ key \in DOMAIN args.f /\ args.f[key].t = "str"
        THEN args.f[key].s ELSE <<>>
\* the path is /tmp or lies below it
UnderTmp(path) ==
    /\ Len(path) >= Len(TmpDir)
    /\ SubSeq(path, 1, Len(TmpDir)) = TmpDir
    /\ Len(path) > Len(TmpDir) => path[Len(TmpDir) + 1] = "/"
FindingsOf(severity) ==
    {k \in 1 .. Len(report.unreasonable) : report.unreasonable[k].severity = severity}

\* C22: every Write call whose file_path lies under /tmp gives exactly one
\* high finding for its step, and a Write call whose path is not under /tmp
\* gives none.
C22_WriteUnderTmp ==
    (Analysed /\ report.kind = "report") =>
      LET flagged == {p \in CallSlots(traj) :
                        /\ Names(CallAt(traj, p), WriteName)
                        /\ UnderTmp(Argument(CallAt(traj, p), "file_path"))}
      IN  /\ Cardinality(FindingsOf("high")) = Cardinality(flagged)
          /\ \A k \in FindingsOf("high") :
               \E p \in flagged :
                 report.unreasonable[k].step =
                   Get(StepAt(traj, p).f, "step_number", NoStepNumber)

BashSlots(content, idiom, mark) ==
    {p \in CallSlots(content) :
       /\ Names(CallAt(content, p), BashName)
       /\ Contains(Argument(CallAt(content, p), "command"), idiom)
       /\ Contains(Argument(CallAt(content, p), "command"), mark)}
StepNumberAt(content, p) == Get(StepAt(content, p).f, "step_number", NoStepNumber)

\* C23: every bash call whose command contains "cat " and ".py" gives exactly
\* one low finding, labelled as the Read-tool alternative; the command
\* "cat a.py" alone gives that finding and nothing else.
C23_CatFinding ==
    (Analysed /\ report.kind = "report") =>
      LET cats == BashSlots(traj, CatIdiom, PySuffix) IN
      /\ Cardinality(FindingsOf("low")) = Cardinality(cats)
      /\ \A k \in FindingsOf("low") :
           /\ report.unreasonable[k].issue = <<"Using 'cat' instead of Read tool">>
           /\ \E p \in cats : report.unreasonable[k].step = StepNumberAt(traj, p)
      /\ (Cardinality(CallSlots(traj)) = 1 /\ cats # {}
            /\ BashSlots(traj, EchoIdiom, Redirect) = {})
           => Len(report.unreasonable) = 1 /\ FindingsOf("low") = {1}
C23_Witness ==
    /\ Analysed /\ report.kind = "report"
    /\ ElementsOf(traj.f, "agent_steps") =
         <<StepOf(JNum(1), JList(<<CallOf(BashName,
                                          ArgsOf("command", <<"c", "a", "t", " ", "a", ".", "p", "y">>))>>),
                  Absent)>>
    /\ report.unreasonable = <<[step |-> JNum(1),
                                issue |-> <<"Using 'cat' instead of Read tool">>,
                                severity |-> "low"]>>

\* C24: every bash call whose command contains "echo " and ">" gives exactly
\* one medium finding, whether or not the same command also gives the low
\* finding.
C24_EchoFinding ==
    (Analysed /\ report.kind = "report") =>
      LET echoes == BashSlots(traj, EchoIdiom, Redirect) IN
      /\ Cardinality(FindingsOf("medium")) = Cardinality(echoes)
      /\ \A k \in FindingsOf("medium") :
           /\ report.unreasonable[k].issue = <<"Using echo redirect instead of Write tool">>
           /\ \E p \in echoes : report.unreasonable[k].step = StepNumberAt(traj, p)
      /\ \A p \in echoes \cap BashSlots(traj, CatIdiom, PySuffix) :
           /\ FindingsOf("low") # {}
           /\ \E k \in FindingsOf("medium") : k - 1 \in FindingsOf("low")
C24_Witness ==
    /\ Analysed /\ report.kind = "report"
    /\ Cardinality(CallSlots(traj)) = 1
    /\ BashSlots(traj, EchoIdiom, Redirect) \cap BashSlots(traj, CatIdiom, PySuffix) # {}
    /\ Len(report.unreasonable) = 2
    /\ report.unreasonable[1].severity = "low"
    /\ report.unreasonable[2].severity = "medium"

NameOf(tc) == Get(tc.f, "name", UnknownName)
RECURSIVE SumOver(_, _)
SumOver(f, D) ==
    IF D = {} THEN 0
    ELSE LET d == CHOOSE d \in D : TRUE IN f[d] + SumOver(f, D \ {d})
\* tool_usage tallies exactly the calls of S, by name
UsageIs(content, S) ==
    /\ DOMAIN report.tool_usage = {NameOf(CallAt(content, p)) : p \in S}
    /\ \A name \in DOMAIN report.tool_usage :
         report.tool_usage[name] =
           Cardinality({p \in S : NameOf(CallAt(content, p)) = name})
    /\ SumOver(report.tool_usage, DOMAIN report.tool_usage) = Cardinality(S)
    /\ report.total_steps = Len(ElementsOf(content.f, "agent_steps"))

\* C25 (as claimed): tool_usage[n] is the number of tool calls named n over
\* all steps, a call without a name counting under "unknown"; the tallies sum
\* to the number of tool calls and total_steps is the number of steps.
C25_Original ==
    (Analysed /\ report.kind = "report") =>
      UsageIs(traj, {p \in CallSlots(traj) : CallAt(traj, p).t = "obj"})
\* C25 (amended): the same over the tool calls that are non-empty objects; a
\* null or empty-object element of tool_calls is counted nowhere.
C25_Amended ==
    (Analysed /\ report.kind = "report") =>
      UsageIs(traj, {p \in CallSlots(traj) :
                       CallAt(traj, p).t = "obj" /\ DOMAIN CallAt(traj, p).f # {}})
C25_Witness ==
    /\ Analysed /\ report.kind = "report"
    /\ Cardinality(CallSlots(traj)) = 3
    /\ \E p \in CallSlots(traj) : CallAt(traj, p) = JObj(EmptyObj)
    /\ DOMAIN report.tool_usage = {WriteName, BashName}
    /\ report.total_steps = 2

Batching == prog = "analyze" /\ Len(reports) > 0
Parsed == {k \in 1 .. Len(files) : files[k].content # JInvalid}
\* every file is unparsable or a well-formed trajectory, and no two of the
\* well-formed ones lie in the same instance directory
OneGoodFilePerDir ==
    /\ \A k \in Parsed : WellFormed(files[k].content)
    /\ \A a, b \in Parsed : files[a].dir = files[b].dir => a = b
UsageOver(K, name) ==
    SumOver([k \in K |-> Get(reports[k].tool_usage, name, 0)], K)

\* C27: a trajectory that fails to parse is skipped and adds nothing to the
\* summaries; every other trajectory of the batch is analysed and summarised,
\* and the batch is not aborted.
C27_ParseFailureSkipped ==
    (prog = "analyze" /\ OneGoodFilePerDir) =>
      /\ pc # "a_crashed"
      /\ pc = "a_done" =>
           /\ Len(reports) = Len(files)
           /\ SumOver(error_summary, DOMAIN error_summary) =
                SumOver([k \in Parsed |-> Len(reports[k].errors)], Parsed)
           /\ SumOver(unreasonable_summary, DOMAIN unreasonable_summary) =
                SumOver([k \in Parsed |-> Len(reports[k].unreasonable)], Parsed)
           /\ \A name \in DOMAIN total_tool_usage \cup
                          UNION {DOMAIN reports[k].tool_usage : k \in Parsed} :
                Get(total_tool_usage, name, 0) = UsageOver(Parsed, name)

\* C28: after an attempt, the reset (git checkout .) leaves a tree on which
\* checking the original test patch gives what it gave right after setup
\* (success), whatever the agent modified, staged or created.
C28_ResetRestores ==
    [][(prog = "run_agent" /\ pc = "reset" /\ pc' = "agent" /\ wt' = GitCheckoutDot(wt))
         => TestPatchChecks(wt')]_vars

\* C29 (as claimed): the first attempt's prompt is the instruction prefix and
\* the problem statement; a retry's prompt is the problem statement and the
\* retry admonishment.
C29_Original ==
    Running =>
      \A k \in 1 .. Len(attempts) :
        attempts[k].prompt =
          IF attempts[k].index = 0 THEN PromptPrefix \o ProblemStatement
          ELSE ProblemStatement \o RetryPrompt
\* C29 (amended): every prompt starts with the instruction prefix followed by
\* the problem statement; a retry's prompt ends with the retry admonishment
\* after that, the first attempt's prompt has nothing after it.
C29_Amended ==
    Running =>
      \A k \in 1 .. Len(attempts) :
        LET pr == attempts[k].prompt IN
        /\ SubSeq(pr, 1, 2) = PromptPrefix \o ProblemStatement
        /\ attempts[k].index = 0 => Len(pr) = 2
        /\ attempts[k].index > 0 => Len(pr) = 3 /\ pr[3] = RetryPrompt[1]
        /\ (\E m \in 1 .. Len(pr) : pr[m] = RetryPrompt[1]) <=> attempts[k].index > 0
C29_Witness ==
    /\ Running /\ Len(attempts) = 2
    /\ attempts[1].prompt = <<"SWEBENCH_PROMPT_PREFIX", "problem_statement">>
    /\ attempts[2].prompt =
         <<"SWEBENCH_PROMPT_PREFIX", "problem_statement", "SWEBENCH_RETRY_PROMPT">>

\* C30: the agent's exit status does not decide an attempt: a non-empty diff
\* ends the loop with that patch even after a nonzero exit, a timeout or an
\* error, and an empty diff is retried while attempts remain even after exit 0.
C30_ExitStatusIgnored ==
    Running =>
      \A k \in 1 .. Len(attempts) :
        Extracted(k) =>
          /\ attempts[k].patch # None =>
               /\ k = Len(attempts) /\ pc \in {"return", "next", "done"}
               /\ result.model_patch = attempts[k].patch
          /\ (attempts[k].patch = None /\ attempts[k].index < max_retries) =>
               \/ k < Len(attempts)
               \/ pc \in {"reset", "agent"}
               \/ LastLog = "reset_raised"
          /\ (attempts[k].patch = None /\ attempts[k].index = max_retries) =>
               /\ k = Len(attempts) /\ pc \in {"return", "next", "done"}
               /\ result.model_patch = <<>>
C30_Witness ==
    /\ Running /\ pc = "return" /\ Len(attempts) = 2
    /\ attempts[1].outcome = "exit0" /\ attempts[1].returned /\ attempts[1].patch = None
    /\ attempts[2].outcome = "nonzero" /\ ~attempts[2].returned
    /\ attempts[2].patch = <<"a">> /\ result.model_patch = <<"a">>

\* C31: every step that waits for an external process is given a timeout, so
\* no instance is left waiting for ever on a process that never exits.
C31_BoundedWaits ==
    /\ pc \in ExternalSteps => StepTimeout(pc)
    /\ pc # "hung"

\* C32: after each call of the agent that returns, the trajectory indication is
\* "saved" exactly when that call itself wrote the trajectory file, also on a
\* retry that follows an attempt which wrote one.
C32_IndicationOwn ==
    Running =>
      \A k \in 1 .. Len(attempts) :
        attempts[k].trajectory # "unreported" =>
          (attempts[k].trajectory = "saved" <=> attempts[k].created)

\* the module the claim names for a changed path: the ".py" suffix removed and
\* every "/" replaced by "."
ExpectedModule(p) ==
    LET k == Len(p) - Len(DotPy)
        stem == IF k >= 0 /\ SubSeq(p, k + 1, Len(p)) = DotPy THEN SubSeq(p, 1, k) ELSE p
    IN ReplaceAll(stem, <<"/">>, <<".">>)
\* the path <p> of a line "diff --git a/<p> b/<p>", <<>> for any other line
ChangedPath(line) ==
    IF /\ Len(line) = 4 /\ line[1] = DiffWord /\ line[2] = GitWord
       /\ Prefix(line[3], 2) = <<"a", "/">> /\ Prefix(line[4], 2) = <<"b", "/">>
       /\ SubSeq(line[3], 3, Len(line[3])) = SubSeq(line[4], 3, Len(line[4]))
    THEN SubSeq(line[4], 3, Len(line[4]))
    ELSE <<>>
RECURSIVE ExpectedModules(_)
ExpectedModules(lines) ==
    IF lines = <<>> THEN <<>>
    ELSE (IF Contains(ChangedPath(Head(lines)), TestWord)
          THEN <<ExpectedModule(ChangedPath(Head(lines)))>> ELSE <<>>)
         \o ExpectedModules(Tail(lines))

\* C33: the django test command is the default runtests command followed by
\* the first three modules named by the changed paths that contain "test",
\* each path with ".py" removed and "/" replaced by ".", whatever the path
\* starts with; with no such path it is the default command alone.
C33_DjangoCommand ==
    (prog = "django" /\ pc = "d_done") =>
      test_cmd = DefaultCmd \o Prefix(ExpectedModules(test_patch), ModuleLimit)

\* every file of the batch parses and holds a well-formed trajectory
AllFilesGood ==
    /\ Parsed = 1 .. Len(files)
    /\ \A k \in Parsed : WellFormed(files[k].content)

\* C34: at the end of a batch in which every file parses, the total per-tool
\* count is the sum of the files' tool_usage tallies, and the error and finding
\* summaries count the errors and findings of the same files, also when several
\* files lie in the same instance directory.
C34_SameFilesAggregated ==
    (prog = "analyze" /\ pc = "a_done" /\ AllFilesGood) =>
      /\ \A name \in DOMAIN total_tool_usage \cup
                     UNION {DOMAIN reports[k].tool_usage : k \in Parsed} :
           Get(total_tool_usage, name, 0) = UsageOver(Parsed, name)
      /\ SumOver(error_summary, DOMAIN error_summary) =
           SumOver([k \in Parsed |-> Len(reports[k].errors)], Parsed)
      /\ SumOver(unreasonable_summary, DOMAIN unreasonable_summary) =
           SumOver([k \in Parsed |-> Len(reports[k].unreasonable)], Parsed)

====
